---- MODULE Spec2Model ----
(***************************************************************************)
(* The TypeScript fact extractor of OntoCodeIndex: the identity token      *)
(* (base64Url, symbolId), the qualified-name scheme, the per-file fact     *)
(* collection (collectUnits, collectCallOccurrences, collectExportRecords, *)
(* hasUseClientDirective, collectFacts) of collect.ts and the main loop of *)
(* index.ts.                                                               *)
(*                                                                         *)
(* A JavaScript string is a sequence of UTF-16 code units.  Names and      *)
(* paths of the corpus are ASCII and written as TLA+ strings; U(s) gives   *)
(* their code units where the code turns a string into bytes.              *)
(***************************************************************************)
EXTENDS Integers, Sequences, FiniteSets, TLC

VARIABLES
  config,    \* the run's configuration (Config)
  envList,   \* the ONTOCODE_FILE_LIST variable
  run,       \* 1 for the first run of the extractor, 2 for the second
  pc,        \* where main is: start, loop, collect, emit, done, exited, crashed
             \* (pure: no run, a pure function is applied)
  files,     \* main's files: absolute paths
  idx,       \* the position of the for loop in files
  seen,      \* main's seen
  source,    \* the path of the source file of the current iteration
  facts,     \* main's facts
  out,       \* the records written to stdout, in order
  exitCode,  \* the process's exit status
  called,    \* history: the paths collectFacts was called for, in this run
  prev,      \* history: a record the first run wrote (a set of at most one)
  pin,       \* the input a pure function is applied to
  pout       \* its result

vars == <<config, envList, run, pc, files, idx, seen, source, facts, out,
          exitCode, called, prev, pin, pout>>

(* ------------------------------------------------------------------ *)
(* Strings                                                            *)
(* ------------------------------------------------------------------ *)

\* The characters of code 32 (space) to 95 (_), in code order.
AsciiLow == " !\"#$%&'(" \o ")*+,-./0123456789:;<=>?@ABCDEFGHIJKLMNOPQRSTUVWXYZ[\\]^_"
\* The characters of code 97 (a) to 126 (~).  Code 96, the backquote, is left
\* out: no name or path of the corpus holds it.
AsciiHigh == "abcdefghijklmnopqrstuvwxyz{|}~"

\* The i-th character of s, a one-character string.
Ch(s, i) == SubSeq(s, i, i)

\* The UTF-16 code unit of each of these characters, as a table.
OrdTable ==
  [i \in 1..Len(AsciiLow) |-> <<Ch(AsciiLow, i), 31 + i>>]
  \o [i \in 1..Len(AsciiHigh) |-> <<Ch(AsciiHigh, i), 96 + i>>]
Ord == [c \in {OrdTable[i][1] : i \in 1..Len(OrdTable)} |->
          (CHOOSE i \in 1..Len(OrdTable) : OrdTable[i][1] = c) + 31
          + (IF (CHOOSE i \in 1..Len(OrdTable) : OrdTable[i][1] = c) > Len(AsciiLow)
               THEN 1 ELSE 0)] @@ << >>

\* The code units of an ASCII string.
U(s) == [i \in 1..Len(s) |-> Ord[Ch(s, i)]]

\* The index of the last occurrence of character c in s, 0 when there is none.
RECURSIVE LastIndexOf(_, _, _)
LastIndexOf(s, c, i) ==
  IF i = 0 THEN 0
  ELSE IF Ch(s, i) = c THEN i
  ELSE LastIndexOf(s, c, i - 1)

\* s with every character of the set drop removed (String.replace(/[..]/g, "")).
RECURSIVE StripChars(_, _)
StripChars(s, drop) ==
  IF Len(s) = 0 THEN ""
  ELSE IF Ch(s, 1) \in drop THEN StripChars(Tail(s), drop)
  ELSE Ch(s, 1) \o StripChars(Tail(s), drop)

\* s with every character from replaced by to (String.replace(/x/g, to)).
RECURSIVE ReplaceChar(_, _, _)
ReplaceChar(s, from, to) ==
  IF Len(s) = 0 THEN ""
  ELSE (IF Ch(s, 1) = from THEN to ELSE Ch(s, 1)) \o ReplaceChar(Tail(s), from, to)

\* s with every maximal run of characters of the set seps replaced by one to
\* (String.replace(/[..]+/g, to)).
RECURSIVE ReplaceRuns(_, _, _, _)
ReplaceRuns(s, seps, to, inRun) ==
  IF Len(s) = 0 THEN ""
  ELSE IF Ch(s, 1) \in seps
    THEN (IF inRun THEN "" ELSE to) \o ReplaceRuns(Tail(s), seps, to, TRUE)
    ELSE Ch(s, 1) \o ReplaceRuns(Tail(s), seps, to, FALSE)

(* ------------------------------------------------------------------ *)
(* Identity token: base64Url and symbolId                             *)
(* ------------------------------------------------------------------ *)

IsHighSurrogate(u) == u >= 55296 /\ u <= 56319
IsLowSurrogate(u) == u >= 56320 /\ u <= 57343

\* Buffer.from(value): the UTF-8 bytes of a sequence of UTF-16 code units.  A
\* surrogate pair is one code point of four bytes; an unpaired surrogate is
\* encoded as U+FFFD (EF BF BD).
RECURSIVE Utf8(_)
Utf8(units) ==
  IF Len(units) = 0 THEN << >>
  ELSE LET u == Head(units) IN
    IF u < 128 THEN <<u>> \o Utf8(Tail(units))
    ELSE IF u < 2048
      THEN <<192 + (u \div 64), 128 + (u % 64)>> \o Utf8(Tail(units))
    ELSE IF IsHighSurrogate(u) /\ Len(units) >= 2 /\ IsLowSurrogate(units[2])
      THEN LET cp == 65536 + (u - 55296) * 1024 + (units[2] - 56320) IN
           <<240 + (cp \div 262144), 128 + ((cp \div 4096) % 64),
             128 + ((cp \div 64) % 64), 128 + (cp % 64)>>
           \o Utf8(Tail(Tail(units)))
    ELSE IF IsHighSurrogate(u) \/ IsLowSurrogate(u)
      THEN <<239, 191, 189>> \o Utf8(Tail(units))
    ELSE <<224 + (u \div 4096), 128 + ((u \div 64) % 64), 128 + (u % 64)>>
         \o Utf8(Tail(units))

\* The base64 alphabet: the character of sextet v is Base64Alphabet[v + 1].
Base64Alphabet ==
  "ABCDEFGHIJKLMNOPQRSTUVWXYZabcdefghijklmnopqrstuvwxyz0123456789+/"

Base64Char(v) == Ch(Base64Alphabet, v + 1)

\* buffer.toString("base64"): three bytes give four characters; a last group of
\* one or two bytes is padded with "=".
RECURSIVE Base64(_)
Base64(bytes) ==
  IF Len(bytes) = 0 THEN ""
  ELSE IF Len(bytes) = 1 THEN
    Base64Char(bytes[1] \div 4) \o Base64Char((bytes[1] % 4) * 16) \o "=="
  ELSE IF Len(bytes) = 2 THEN
    Base64Char(bytes[1] \div 4)
    \o Base64Char((bytes[1] % 4) * 16 + (bytes[2] \div 16))
    \o Base64Char((bytes[2] % 16) * 4) \o "="
  ELSE
    Base64Char(bytes[1] \div 4)
    \o Base64Char((bytes[1] % 4) * 16 + (bytes[2] \div 16))
    \o Base64Char((bytes[2] % 16) * 4 + (bytes[3] \div 64))
    \o Base64Char(bytes[3] % 64)
    \o Base64(SubSeq(bytes, 4, Len(bytes)))

\* A character map that sends both + and / to the same character.
BASE64_MAP_Merged(m) ==
  IF m = "+" \/ m = "/" THEN "-"
  ELSE IF m = "=" THEN ""
  ELSE m

\* BASE64_MAP, as a total map on characters: the three keys are replaced, every
\* other character is not matched by /[+/=]/g and stays.
BASE64_MAP(m) ==
  IF m = "+" THEN "-"
  ELSE IF m = "/" THEN "_"
  ELSE IF m = "=" THEN ""
  ELSE m

RECURSIVE MapChars(_)
MapChars(s) ==
  IF Len(s) = 0 THEN "" ELSE BASE64_MAP(Ch(s, 1)) \o MapChars(Tail(s))

\* base64Url(value), value given as its code units.
base64Url(value) == MapChars(Base64(Utf8(value)))

\* symbolId(kind, qualifiedName): kind an ASCII string, qualifiedName given as
\* its code units.
symbolId(kind, qualifiedName) ==
  base64Url(U("ts:" \o kind \o ":") \o qualifiedName)

(* ------------------------------------------------------------------ *)
(* Paths (node:path, POSIX)                                           *)
(* ------------------------------------------------------------------ *)

\* The value of an absent optional (undefined).
NONE == "<undefined>"

\* The segments of a path: the maximal runs of characters other than "/".
RECURSIVE Segments(_, _)
Segments(s, cur) ==
  IF Len(s) = 0 THEN (IF cur = "" THEN << >> ELSE <<cur>>)
  ELSE IF Ch(s, 1) = "/"
    THEN (IF cur = "" THEN << >> ELSE <<cur>>) \o Segments(Tail(s), "")
    ELSE Segments(Tail(s), cur \o Ch(s, 1))

RECURSIVE Join(_, _)
Join(segs, sep) ==
  IF Len(segs) = 0 THEN ""
  ELSE IF Len(segs) = 1 THEN segs[1]
  ELSE segs[1] \o sep \o Join(Tail(segs), sep)

\* Segments with "." dropped and ".." taking back the segment before it.
RECURSIVE NormalizeSegments(_, _)
NormalizeSegments(segs, acc) ==
  IF Len(segs) = 0 THEN acc
  ELSE IF segs[1] = "." THEN NormalizeSegments(Tail(segs), acc)
  ELSE IF segs[1] = ".."
    THEN NormalizeSegments(Tail(segs),
           IF Len(acc) = 0 THEN acc ELSE SubSeq(acc, 1, Len(acc) - 1))
  ELSE NormalizeSegments(Tail(segs), Append(acc, segs[1]))

\* path.resolve(base, p) for an absolute base: an absolute p replaces base.
pathResolve(base, p) ==
  LET full == IF Len(p) > 0 /\ Ch(p, 1) = "/" THEN p ELSE base \o "/" \o p
  IN "/" \o Join(NormalizeSegments(Segments(full, ""), << >>), "/")

RECURSIVE CommonPrefixLen(_, _)
CommonPrefixLen(a, b) ==
  IF Len(a) = 0 \/ Len(b) = 0 \/ a[1] # b[1] THEN 0
  ELSE 1 + CommonPrefixLen(Tail(a), Tail(b))

\* path.relative(from, to) for absolute paths: ".." for every segment of from
\* below the common directory, then the rest of to.
pathRelative(from, to) ==
  LET fs == NormalizeSegments(Segments(from, ""), << >>)
      ts == NormalizeSegments(Segments(to, ""), << >>)
      n == CommonPrefixLen(fs, ts)
  IN Join([i \in 1..(Len(fs) - n) |-> ".."] \o SubSeq(ts, n + 1, Len(ts)), "/")

\* moduleQualifiedName(relativePath): /\.[^.]+$/ matches from the last "." when
\* at least one character follows it; then every run of separators becomes ".".
moduleQualifiedName(relativePath) ==
  LET dot == LastIndexOf(relativePath, ".", Len(relativePath))
      withoutExt == IF dot > 0 /\ dot < Len(relativePath)
                      THEN SubSeq(relativePath, 1, dot - 1)
                      ELSE relativePath
  IN ReplaceRuns(withoutExt, {"\\", "/"}, ".", FALSE)

(* ------------------------------------------------------------------ *)
(* The corpus: source files as ts-morph presents them                 *)
(* ------------------------------------------------------------------ *)

Span(sl, sc, el, ec) ==
  [startLine |-> sl, startCol |-> sc, endLine |-> el, endCol |-> ec]

\* A node of a file's syntax tree, with what the extractor reads from it:
\*   kind      getKindName()
\*   parent    the index of the parent node in the file's list, 0 for the file
\*   name      getName() / getNameNode().getText(), NONE when there is none
\*   sym       getSymbol()?.getName(): the name the TypeScript binder gave the
\*             node's symbol, NONE when the node has no symbol
\*   isDefault hasModifier(DefaultKeyword)
\*   isAsync   isAsync()
\*   span      spanFromNode's line and column numbers
\*   callee    of a call expression: getExpression().getText()
\*   calleeSym of a call expression: the index, in the file's symbols, of the
\*             symbol of the callee expression, 0 when it has none
Decl(kind, parent, name, sym, isDefault, isAsync, span) ==
  [kind |-> kind, parent |-> parent, name |-> name, sym |-> sym,
   isDefault |-> isDefault, isAsync |-> isAsync, span |-> span,
   callee |-> NONE, calleeSym |-> 0]

Call(parent, callee, calleeSym, span) ==
  [kind |-> "CallExpression", parent |-> parent, name |-> NONE, sym |-> NONE,
   isDefault |-> FALSE, isAsync |-> FALSE, span |-> span,
   callee |-> callee, calleeSym |-> calleeSym]

\* A symbol of the type checker: its name, checker.getFullyQualifiedName of it,
\* and its declarations, each <<path of the declaring file, node index>>.
Sym(name, fqn, decls) == [name |-> name, fqn |-> fqn, decls |-> decls]

\* A top-level statement: its kind and, for an expression statement, the kind
\* of the expression and the text of a string literal.
Directive(text) ==
  [kind |-> "ExpressionStatement", expr |-> "StringLiteral", text |-> text]
ExprStmt(exprKind) ==
  [kind |-> "ExpressionStatement", expr |-> exprKind, text |-> NONE]
Stmt(kind) == [kind |-> kind, expr |-> NONE, text |-> NONE]

\* The repository of the corpus.
RepoDir == "/w/r"

\* a.ts:   import { bar } from "./b";
\*         export function foo() { bar(); }
\* The callee bar is the import binding: its symbol is the alias declared by
\* the import specifier of a.ts.
FileA ==
  [path |-> "/w/r/a.ts", readable |-> TRUE, sha256 |-> "sha256(a.ts)",
   statements |-> <<Stmt("ImportDeclaration"), Stmt("FunctionDeclaration")>>,
   nodes |-> <<
     Decl("ImportDeclaration", 0, NONE, NONE, FALSE, FALSE, Span(1, 1, 1, 27)),
     Decl("ImportSpecifier", 1, "bar", "bar", FALSE, FALSE, Span(1, 10, 1, 13)),
     Decl("FunctionDeclaration", 0, "foo", "foo", FALSE, FALSE, Span(2, 1, 2, 33)),
     Call(3, "bar", 1, Span(2, 25, 2, 30)) >>,
   symbols |-> << Sym("bar", "bar", << <<"/w/r/a.ts", 2>> >>) >>,
   imports |-> << [from |-> "./b", target |-> "/w/r/b.ts"] >>,
   exportSymbols |-> << Sym("foo", "\"/w/r/a\".foo", << <<"/w/r/a.ts", 3>> >>) >>,
   defaultExport |-> << >>]

\* b.ts:   export function bar() {}
FileB ==
  [path |-> "/w/r/b.ts", readable |-> TRUE, sha256 |-> "sha256(b.ts)",
   statements |-> <<Stmt("FunctionDeclaration")>>,
   nodes |-> <<
     Decl("FunctionDeclaration", 0, "bar", "bar", FALSE, FALSE, Span(1, 1, 1, 25)) >>,
   symbols |-> << >>,
   imports |-> << >>,
   exportSymbols |-> << Sym("bar", "\"/w/r/b\".bar", << <<"/w/r/b.ts", 1>> >>) >>,
   defaultExport |-> << >>]

\* c.tsx:  "use client";
\*         export default () => { ext(); };
\* The default export symbol is declared by the export assignment; the arrow
\* function's own symbol is the binder's "__function".  ext is declared nowhere.
FileC ==
  [path |-> "/w/r/c.tsx", readable |-> TRUE, sha256 |-> "sha256(c.tsx)",
   statements |-> <<Directive("use client"), Stmt("ExportAssignment")>>,
   nodes |-> <<
     Decl("ExportAssignment", 0, NONE, "default", FALSE, FALSE, Span(2, 1, 2, 33)),
     Decl("ArrowFunction", 1, NONE, "__function", FALSE, FALSE, Span(2, 16, 2, 32)),
     Call(2, "ext", 0, Span(2, 24, 2, 29)) >>,
   symbols |-> << >>,
   imports |-> << >>,
   exportSymbols |-> << Sym("default", "\"/w/r/c\".default", << <<"/w/r/c.tsx", 1>> >>) >>,
   defaultExport |-> << <<"/w/r/c.tsx", 1>> >>]

\* d.ts:
\*    1  "use strict";
\*    2  "use client";
\*    3  export default class {
\*    4    async run() { this.run(); }
\*    5  }
\*    6  import { bar } from "./b";
\*    7  import React from "react";
\*    8  import fs from "node:fs";
\*    9  import "./missing";
\*   10  import ".hidden";
\* "react" resolves to the declaration file of the installed package, which
\* is a source file of the program and none of the repository's (main
\* excludes node_modules); "node:fs", "./missing" and ".hidden" resolve to
\* nothing.
FileD ==
  [path |-> "/w/r/d.ts", readable |-> TRUE, sha256 |-> "sha256(d.ts)",
   statements |-> <<Directive("use strict"), Directive("use client"),
                    Stmt("ClassDeclaration"), Stmt("ImportDeclaration"),
                    Stmt("ImportDeclaration"), Stmt("ImportDeclaration"),
                    Stmt("ImportDeclaration"), Stmt("ImportDeclaration")>>,
   nodes |-> <<
     Decl("ClassDeclaration", 0, NONE, "default", TRUE, FALSE, Span(3, 1, 5, 2)),
     Decl("MethodDeclaration", 1, "run", "run", FALSE, TRUE, Span(4, 3, 4, 30)),
     Call(2, "this.run", 1, Span(4, 17, 4, 27)) >>,
   symbols |-> << Sym("run", "\"/w/r/d\".default.run", << <<"/w/r/d.ts", 2>> >>) >>,
   imports |-> <<
     [from |-> "./b", target |-> "/w/r/b.ts"],
     [from |-> "react", target |-> "/w/r/node_modules/react/index.d.ts"],
     [from |-> "node:fs", target |-> NONE],
     [from |-> "./missing", target |-> NONE],
     [from |-> ".hidden", target |-> NONE] >>,
   exportSymbols |-> << Sym("default", "\"/w/r/d\".default", << <<"/w/r/d.ts", 1>> >>) >>,
   defaultExport |-> << <<"/w/r/d.ts", 1>> >>]

\* lib/n.ts:
\*    1  import "./side";
\*    2  "use client";
\*    3  ext();
\*    4  export function outer() {
\*    5    ext.run();
\*    6    const inner = function () { ext(); };
\*    7    ""();
\*    8  }
\*    9  export class K {
\*   10    constructor() { ext(); }
\*   11    m() { return () => ext(); }
\*   12  }
\* ext is declared nowhere, and a string literal has no symbol.
FileN ==
  [path |-> "/w/r/lib/n.ts", readable |-> TRUE, sha256 |-> "sha256(lib/n.ts)",
   statements |-> <<Stmt("ImportDeclaration"), Directive("use client"),
                    ExprStmt("CallExpression"), Stmt("FunctionDeclaration"),
                    Stmt("ClassDeclaration")>>,
   nodes |-> <<
     Decl("ImportDeclaration", 0, NONE, NONE, FALSE, FALSE, Span(1, 1, 1, 17)),
     Call(0, "ext", 0, Span(3, 1, 3, 6)),
     Decl("FunctionDeclaration", 0, "outer", "outer", FALSE, FALSE, Span(4, 1, 8, 2)),
     Call(3, "ext.run", 0, Span(5, 3, 5, 12)),
     Decl("VariableDeclaration", 3, "inner", "inner", FALSE, FALSE, Span(6, 9, 6, 39)),
     Decl("FunctionExpression", 5, NONE, "__function", FALSE, FALSE, Span(6, 17, 6, 39)),
     Call(6, "ext", 0, Span(6, 31, 6, 36)),
     Call(3, "\"\"", 0, Span(7, 3, 7, 7)),
     Decl("ClassDeclaration", 0, "K", "K", FALSE, FALSE, Span(9, 1, 12, 2)),
     Decl("Constructor", 9, NONE, "__constructor", FALSE, FALSE, Span(10, 3, 10, 27)),
     Call(10, "ext", 0, Span(10, 19, 10, 24)),
     Decl("MethodDeclaration", 9, "m", "m", FALSE, FALSE, Span(11, 3, 11, 30)),
     Decl("ArrowFunction", 12, NONE, "__function", FALSE, FALSE, Span(11, 16, 11, 27)),
     Call(13, "ext", 0, Span(11, 22, 11, 27)) >>,
   symbols |-> << >>,
   imports |-> << [from |-> "./side", target |-> NONE] >>,
   exportSymbols |-> <<
     Sym("outer", "\"/w/r/lib/n\".outer", << <<"/w/r/lib/n.ts", 3>> >>),
     Sym("K", "\"/w/r/lib/n\".K", << <<"/w/r/lib/n.ts", 9>> >>) >>,
   defaultExport |-> << >>]

\* x.ts:   export function f() {}
\* The file is in the project, and can no longer be read when it is hashed.
FileX ==
  [path |-> "/w/r/x.ts", readable |-> FALSE, sha256 |-> NONE,
   statements |-> <<Stmt("FunctionDeclaration")>>,
   nodes |-> <<
     Decl("FunctionDeclaration", 0, "f", "f", FALSE, FALSE, Span(1, 1, 1, 23)) >>,
   symbols |-> << >>,
   imports |-> << >>,
   exportSymbols |-> << Sym("f", "\"/w/r/x\".f", << <<"/w/r/x.ts", 1>> >>) >>,
   defaultExport |-> << >>]

\* The source files that exist, by path.  /w/r/m.ts does not exist.
Corpus == {FileA, FileB, FileC, FileD, FileN, FileX}
CorpusPaths == {f.path : f \in Corpus}
FileAt(p) == CHOOSE f \in Corpus : f.path = p

(* ------------------------------------------------------------------ *)
(* collect.ts                                                         *)
(* ------------------------------------------------------------------ *)

\* The run's configuration: the working directory, the --repo argument, the
\* ONTOCODE_EXTRACTOR_REPO variable and the compiler option rootDir; the last
\* three are NONE when not given.
Config(cwd, argRepo, envRepo, rootDir) ==
  [cwd |-> cwd, argRepo |-> argRepo, envRepo |-> envRepo, rootDir |-> rootDir]

inferUnitKind(kind) ==
  IF kind \in {"FunctionDeclaration", "MethodDeclaration", "FunctionExpression",
               "ArrowFunction", "Constructor", "GetAccessor", "SetAccessor"}
    THEN "callable"
  ELSE IF kind \in {"ClassDeclaration", "InterfaceDeclaration", "EnumDeclaration"}
    THEN "classifier"
  ELSE IF kind = "VariableDeclaration" THEN "variable"
  ELSE IF kind = "Parameter" THEN "parameter"
  ELSE "type"

\* projectRoot(sourceFile): env ?? rootDir ?? cwd.
projectRoot(cfg) ==
  IF cfg.envRepo # NONE THEN cfg.envRepo
  ELSE IF cfg.rootDir # NONE THEN cfg.rootDir
  ELSE cfg.cwd

\* inferNodeName(node); NONE is undefined.  A name that is the empty string is
\* falsy and falls through like an absent one.
inferNodeName(node) ==
  LET named == node.name # NONE /\ node.name # "" IN
  IF node.kind = "FunctionDeclaration" /\ named THEN node.name
  ELSE IF node.kind = "FunctionDeclaration" /\ node.isDefault THEN "default"
  ELSE IF node.kind = "VariableDeclaration" THEN node.name
  ELSE IF node.kind \in {"ClassDeclaration", "InterfaceDeclaration", "EnumDeclaration"}
          /\ named THEN node.name
  ELSE IF node.kind \in {"MethodDeclaration", "GetAccessor", "SetAccessor"}
          /\ node.name # NONE THEN node.name
  ELSE IF node.kind = "ArrowFunction" THEN "arrow"
  ELSE IF node.kind = "FunctionExpression" THEN "anonymous"
  ELSE NONE

\* buildQualifiedName(sourceFile, node, checker): the symbol's name when the
\* node has a symbol, the inferred name otherwise; NONE when that is falsy.
buildQualifiedName(cfg, file, node) ==
  LET relPath == ReplaceChar(pathRelative(projectRoot(cfg), file.path), "\\", "/")
      moduleName == moduleQualifiedName(relPath)
      baseName == IF node.sym # NONE THEN node.sym ELSE inferNodeName(node)
  IN IF baseName = NONE \/ baseName = "" THEN NONE
     ELSE moduleName \o "." \o baseName

\* The declaration a symbol's reference <<path, index>> names.
DeclFile(ref) == FileAt(ref[1])
DeclNode(ref) == FileAt(ref[1]).nodes[ref[2]]

\* exportDefaultSymbolId(sourceFile, checker).
exportDefaultSymbolId(cfg, file) ==
  IF Len(file.defaultExport) = 0 THEN NONE
  ELSE LET decl == DeclNode(file.defaultExport[1])
           qn == buildQualifiedName(cfg, file, decl)
       IN IF qn = NONE THEN NONE
          ELSE symbolId(inferUnitKind(decl.kind), U(qn))

\* The export records of the export symbols from the i-th on: a symbol without
\* declarations is passed over.
RECURSIVE ExportSymbolRecords(_, _, _)
ExportSymbolRecords(cfg, file, i) ==
  IF i > Len(file.exportSymbols) THEN << >>
  ELSE LET sym == file.exportSymbols[i] IN
    IF Len(sym.decls) = 0 THEN ExportSymbolRecords(cfg, file, i + 1)
    ELSE LET decl == DeclNode(sym.decls[1])
             qn == buildQualifiedName(cfg, file, decl)
             id == IF qn # NONE THEN symbolId(inferUnitKind(decl.kind), U(qn))
                   ELSE NONE
         IN <<[name |-> sym.name, unitSymbolId |-> id]>>
            \o ExportSymbolRecords(cfg, file, i + 1)

\* collectExportRecords(sourceFile, checker, moduleName).
collectExportRecords(cfg, file) ==
  LET defaultId == exportDefaultSymbolId(cfg, file) IN
  ExportSymbolRecords(cfg, file, 1)
  \o (IF defaultId # NONE
        THEN <<[name |-> "default", unitSymbolId |-> defaultId]>>
        ELSE << >>)

\* collectImportRecords(sourceFile).
collectImportRecords(cfg, file) ==
  [i \in 1..Len(file.imports) |->
     LET decl == file.imports[i] IN
     IF decl.target # NONE
       THEN [from |-> decl.from, resolvedKind |-> "file",
             resolved |-> ReplaceChar(pathRelative(projectRoot(cfg), decl.target),
                                      "\\", "/")]
       ELSE [from |-> decl.from,
             resolvedKind |-> IF Len(decl.from) > 0 /\ Ch(decl.from, 1) = "."
                                THEN "unknown" ELSE "package",
             resolved |-> NONE]]

\* An IsDescendant that holds for the children of node c only.
IsChild(file, i, c) == file.nodes[i].parent = c

\* Whether node i of the file lies below node c.
RECURSIVE IsDescendant(_, _, _)
IsDescendant(file, i, c) ==
  LET p == file.nodes[i].parent IN
  IF p = 0 THEN FALSE
  ELSE IF p = c THEN TRUE
  ELSE IsDescendant(file, p, c)

\* The occurrence record of one call expression (the callback of
\* collectCallOccurrences).
CallOccurrence(cfg, file, node, subjectId) ==
  LET resolved == node.calleeSym # 0
      symbol == file.symbols[node.calleeSym]
      qn == IF resolved THEN symbol.fqn ELSE node.callee
      objectQName == ReplaceChar(StripChars(qn, {"\"", "'"}), "/", ".")
      hasDecl == resolved /\ Len(symbol.decls) > 0
      objectQn == IF hasDecl
                    THEN buildQualifiedName(cfg, DeclFile(symbol.decls[1]),
                                            DeclNode(symbol.decls[1]))
                    ELSE NONE
      objectSymbolId ==
        IF objectQn # NONE
          THEN symbolId(inferUnitKind(DeclNode(symbol.decls[1]).kind), U(objectQn))
          ELSE NONE
  IN [relation |-> "calls", subjectSymbolId |-> subjectId,
      objectSymbolId |-> objectSymbolId, objectQName |-> objectQName,
      span |-> node.span]

\* collectCallOccurrences(container, subjectId, checker): the call expressions
\* among the descendants of the container, in pre-order, from node i on.
RECURSIVE collectCallOccurrences(_, _, _, _, _)
collectCallOccurrences(cfg, file, container, subjectId, i) ==
  IF i > Len(file.nodes) THEN << >>
  ELSE IF file.nodes[i].kind = "CallExpression" /\ IsDescendant(file, i, container)
    THEN <<CallOccurrence(cfg, file, file.nodes[i], subjectId)>>
         \o collectCallOccurrences(cfg, file, container, subjectId, i + 1)
    ELSE collectCallOccurrences(cfg, file, container, subjectId, i + 1)

\* The number of nodes before node i with the same parent and kind.
SiblingIndex(file, i) ==
  Cardinality({j \in 1..(i - 1) :
     /\ file.nodes[j].parent = file.nodes[i].parent
     /\ file.nodes[j].kind = file.nodes[i].kind})

\* astPath(node): "Kind[index]" of the node and of its ancestors, from the
\* top-level one down, over the nodes the corpus lists.
RECURSIVE astPath(_, _)
astPath(file, i) ==
  LET piece == file.nodes[i].kind \o "[" \o ToString(SiblingIndex(file, i)) \o "]"
      p == file.nodes[i].parent
  IN IF p = 0 THEN piece ELSE astPath(file, p) \o "/" \o piece

UnitKinds ==
  {"FunctionDeclaration", "FunctionExpression", "ArrowFunction",
   "MethodDeclaration", "ClassDeclaration", "InterfaceDeclaration",
   "EnumDeclaration"}

\* An OccurrenceKinds without the function expressions and arrow functions.
OccurrenceKindsDeclared == {"FunctionDeclaration", "MethodDeclaration"}

OccurrenceKinds ==
  {"FunctionDeclaration", "MethodDeclaration", "ArrowFunction",
   "FunctionExpression"}

\* The unit record collectUnits builds for node i.
UnitRecord(cfg, file, i) ==
  LET node == file.nodes[i]
      qn == buildQualifiedName(cfg, file, node)
      kind == inferUnitKind(node.kind)
      inferred == inferNodeName(node)
      isDefault == \E k \in 1..Len(file.defaultExport) :
                      file.defaultExport[k] = <<file.path, i>>
  IN [kind |-> kind,
      name |-> IF inferred # NONE THEN inferred ELSE node.kind,
      qualifiedName |-> qn,
      symbolId |-> symbolId(kind, U(qn)),
      span |-> node.span,
      astPath |-> astPath(file, i),
      isExportedDefault |-> IF isDefault THEN TRUE ELSE node.isDefault,
      isAsync |-> node.isAsync]

\* The callback of collectUnits on node i: acc with what the node adds.
VisitUnit(cfg, file, i, acc) ==
  LET node == file.nodes[i] IN
  IF node.kind \notin UnitKinds THEN acc
  ELSE IF buildQualifiedName(cfg, file, node) = NONE THEN acc
  ELSE LET unit == UnitRecord(cfg, file, i) IN
    [units |-> Append(acc.units, unit),
     occurrences |->
       IF node.kind \in OccurrenceKinds
         THEN acc.occurrences
              \o collectCallOccurrences(cfg, file, i, unit.symbolId, 1)
         ELSE acc.occurrences]

RECURSIVE WalkUnits(_, _, _, _)
WalkUnits(cfg, file, i, acc) ==
  IF i > Len(file.nodes) THEN acc
  ELSE WalkUnits(cfg, file, i + 1, VisitUnit(cfg, file, i, acc))

\* A collectUnits whose two lists are declared once for the module and never
\* cleared: they start as the previous call of the process left them.
collectUnitsShared(cfg, file) ==
  WalkUnits(cfg, file, 1,
            [units |-> facts.units, occurrences |-> facts.occurrences])

\* collectUnits(sourceFile, checker): both lists start empty on every call.
collectUnits(cfg, file) ==
  WalkUnits(cfg, file, 1, [units |-> << >>, occurrences |-> << >>])

\* A hasUseClientDirective that looks at the first statement only.
hasUseClientDirectiveFirstOnly(statements, i) ==
  /\ i <= Len(statements)
  /\ statements[i] = Directive("use client")

\* hasUseClientDirective(sourceFile): the statements from the i-th on.
RECURSIVE hasUseClientDirective(_, _)
hasUseClientDirective(statements, i) ==
  IF i > Len(statements) THEN FALSE
  ELSE IF statements[i].kind # "ExpressionStatement" THEN FALSE
  ELSE IF statements[i].expr # "StringLiteral" THEN FALSE
  ELSE IF statements[i].text = "use client" THEN TRUE
  ELSE hasUseClientDirective(statements, i + 1)

\* Whether collectFacts throws: readFileSync fails on a file that cannot be read.
collectFactsThrows(file) == ~file.readable

\* collectFacts(project, sourceFile), when it returns.
collectFacts(cfg, file) ==
  LET collected == collectUnits(cfg, file) IN
  [filePath |-> file.path,
   sha256 |-> file.sha256,
   units |-> collected.units,
   imports |-> collectImportRecords(cfg, file),
   exports |-> collectExportRecords(cfg, file),
   occurrences |-> collected.occurrences,
   extends |-> << >>,
   implements |-> << >>,
   hasUseClientDirective |-> hasUseClientDirective(file.statements, 1)]

(* ------------------------------------------------------------------ *)
(* index.ts: the main loop                                            *)
(* ------------------------------------------------------------------ *)

\* The longest file list of a run.
MaxFiles == 2

\* The longest statement list hasUseClientDirective is applied to, the longest
\* string base64Url is applied to and the longest qualified name symbolId is
\* applied to.
MaxStmts == 3
MaxLen == 3
MaxName == 2

\* The configurations: the extractor is started in the repository, or in its
\* parent directory with --repo r; ONTOCODE_EXTRACTOR_REPO or the tsconfig's
\* rootDir is given or not.
Configs ==
  {Config("/w/r", NONE, NONE, NONE),
   Config("/w", "r", "/w/r", NONE),
   Config("/w/r", NONE, NONE, "/w/r/lib"),
   Config("/w", "r", NONE, NONE)}

\* parseArgs and main, line 61: the repository directory.
repoOf(c) == pathResolve(c.cwd, IF c.argRepo = NONE THEN c.cwd ELSE c.argRepo)

\* The sequences over S of length at most n.
SeqsUpTo(S, n) == UNION {[1..k -> S] : k \in 0..n}

\* An element of the parsed file list: a string (a path) or another JSON value.
StringItem(p) == [type |-> "string", value |-> p]
NumberItem == [type |-> "number", value |-> "1"]

ListedPaths == {"a.ts", "b.ts", "c.tsx", "d.ts", "lib/n.ts", "x.ts", "m.ts"}

\* The values of ONTOCODE_FILE_LIST:
\*   absent   the variable is not set
\*   empty    the empty string
\*   invalid  a text that is not JSON
\*   value    JSON that is not an array (a number, a string, an object, null)
\*   array    a JSON array of items
EnvLists ==
  {[kind |-> k, items |-> << >>] : k \in {"absent", "empty", "invalid", "value"}}
  \cup {[kind |-> "array", items |-> s] :
          s \in SeqsUpTo({StringItem(p) : p \in ListedPaths} \cup {NumberItem},
                         MaxFiles)}

\* if (envList): undefined and "" are falsy.
EnvListGiven(e) == e.kind \notin {"absent", "empty"}

\* A try block that throws on a text that is not JSON only.
FileListThrowsOnSyntaxOnly(e) == e.kind = "invalid"

\* Whether the try block of main throws: JSON.parse on a text that is not
\* JSON, parsed.map on a value without map, path.resolve on a non-string item.
FileListThrows(e) ==
  \/ e.kind = "invalid"
  \/ e.kind = "value"
  \/ e.kind = "array" /\ \E i \in 1..Len(e.items) : e.items[i].type # "string"

\* parsed.map((rel) => path.resolve(repo, rel)).
ResolvedFileList(c, e) ==
  [i \in 1..Len(e.items) |-> pathResolve(repoOf(c), e.items[i].value)]

\* What fast-glob returns: existing files matching the include patterns, each
\* once.
IsDuplicateFree(s) == \A i, j \in 1..Len(s) : s[i] = s[j] => i = j
Discovered == {s \in SeqsUpTo(CorpusPaths, MaxFiles) : IsDuplicateFree(s)}

\* The state of a process that has not run yet.
NoFacts ==
  [filePath |-> NONE, sha256 |-> NONE, units |-> << >>, imports |-> << >>,
   exports |-> << >>, occurrences |-> << >>, extends |-> << >>,
   implements |-> << >>, hasUseClientDirective |-> FALSE]

Started(c, e, r, p) ==
  /\ config = c /\ envList = e /\ run = r /\ prev = p
  /\ pc = "start" /\ files = << >> /\ idx = 1 /\ seen = {}
  /\ source = NONE /\ facts = NoFacts /\ out = << >> /\ exitCode = 0
  /\ called = << >>
  /\ pin = << >> /\ pout = << >>

Init == \E c \in Configs, e \in EnvLists : Started(c, e, 1, {})

\* main, lines 78-88: the file list override is given and read.
ReadFileList ==
  /\ pc = "start" /\ EnvListGiven(envList) /\ ~FileListThrows(envList)
  /\ files' = ResolvedFileList(config, envList)
  /\ pc' = "loop"
  /\ UNCHANGED <<config, envList, run, idx, seen, source, facts, out, exitCode,
                 called, prev, pin, pout>>

\* main, lines 84-87: the catch block ends the process with status 1.
RejectFileList ==
  /\ pc = "start" /\ EnvListGiven(envList) /\ FileListThrows(envList)
  /\ pc' = "exited" /\ exitCode' = 1
  /\ UNCHANGED <<config, envList, run, files, idx, seen, source, facts, out,
                 called, prev, pin, pout>>

\* main, lines 89-97: file discovery.
DiscoverFiles ==
  /\ pc = "start" /\ ~EnvListGiven(envList)
  /\ \E s \in Discovered : files' = s
  /\ pc' = "loop"
  /\ UNCHANGED <<config, envList, run, idx, seen, source, facts, out, exitCode,
                 called, prev, pin, pout>>

\* main, lines 99-102: a path seen before is passed over.
SkipSeen ==
  /\ pc = "loop" /\ idx <= Len(files) /\ files[idx] \in seen
  /\ idx' = idx + 1
  /\ UNCHANGED <<config, envList, run, pc, files, seen, source, facts, out,
                 exitCode, called, prev, pin, pout>>

\* main, lines 103-107: no source file at the path.
SkipMissing ==
  /\ pc = "loop" /\ idx <= Len(files) /\ files[idx] \notin seen
  /\ files[idx] \notin CorpusPaths
  /\ seen' = seen \cup {files[idx]}
  /\ source' = NONE
  /\ idx' = idx + 1
  /\ UNCHANGED <<config, envList, run, pc, files, facts, out, exitCode, called,
                 prev, pin, pout>>

\* main, lines 103-104: the source file is found.
LoadSource ==
  /\ pc = "loop" /\ idx <= Len(files) /\ files[idx] \notin seen
  /\ files[idx] \in CorpusPaths
  /\ seen' = seen \cup {files[idx]}
  /\ source' = files[idx]
  /\ pc' = "collect"
  /\ UNCHANGED <<config, envList, run, files, idx, facts, out, exitCode, called,
                 prev, pin, pout>>

\* main, line 108: collectFacts returns.
CollectFacts ==
  /\ pc = "collect" /\ ~collectFactsThrows(FileAt(source))
  /\ facts' = collectFacts(config, FileAt(source))
  /\ called' = Append(called, source)
  /\ pc' = "emit"
  /\ UNCHANGED <<config, envList, run, files, idx, seen, source, out, exitCode,
                 prev, pin, pout>>

\* main, line 108, and lines 114-117: collectFacts throws, nothing in the loop
\* catches it, main's promise is rejected and the handler sets exit status 1.
CollectFactsFails ==
  /\ pc = "collect" /\ collectFactsThrows(FileAt(source))
  /\ called' = Append(called, source)
  /\ pc' = "crashed" /\ exitCode' = 1
  /\ UNCHANGED <<config, envList, run, files, idx, seen, source, facts, out,
                 prev, pin, pout>>

\* main, lines 109-110: the record gets its repo-relative path and is written.
EmitFacts ==
  /\ pc = "emit"
  /\ facts' = [facts EXCEPT !.filePath =
                 ReplaceChar(pathRelative(repoOf(config), files[idx]), "\\", "/")]
  /\ out' = Append(out, facts')
  /\ idx' = idx + 1
  /\ pc' = "loop"
  /\ UNCHANGED <<config, envList, run, files, seen, source, exitCode, called,
                 prev, pin, pout>>

\* main, line 111: the loop is over.
FinishLoop ==
  /\ pc = "loop" /\ idx > Len(files)
  /\ pc' = "done"
  /\ UNCHANGED <<config, envList, run, files, idx, seen, source, facts, out,
                 exitCode, called, prev, pin, pout>>

\* The extractor is run again on the same repository with the same
\* configuration, as a new process: nothing of the first run is kept but one
\* of the records it wrote, to compare the second run's records with.
RunAgain ==
  /\ pc \in {"done", "exited", "crashed"} /\ run = 1
  /\ envList' \in EnvLists
  /\ run' = 2
  /\ IF out = << >> THEN prev' = {}
     ELSE \E i \in 1..Len(out) : prev' = {out[i]}
  /\ pc' = "start" /\ files' = << >> /\ idx' = 1 /\ seen' = {}
  /\ source' = NONE /\ facts' = NoFacts /\ out' = << >> /\ exitCode' = 0
  /\ called' = << >>
  /\ UNCHANGED <<config, pin, pout>>

Next ==
  \/ ReadFileList
  \/ RejectFileList
  \/ DiscoverFiles
  \/ SkipSeen
  \/ SkipMissing
  \/ LoadSource
  \/ CollectFacts
  \/ CollectFactsFails
  \/ EmitFacts
  \/ FinishLoop
  \/ RunAgain

Spec == Init /\ [][Next]_vars

(* ------------------------------------------------------------------ *)
(* The pure functions, applied to bounded inputs                      *)
(* ------------------------------------------------------------------ *)

\* The variables of main, while a pure function is applied outside any run.
NoRun ==
  /\ config = Config("/w/r", NONE, NONE, NONE)
  /\ envList = [kind |-> "absent", items |-> << >>]
  /\ run = 1 /\ prev = {}
  /\ pc = "pure" /\ files = << >> /\ idx = 1 /\ seen = {}
  /\ source = NONE /\ facts = NoFacts /\ out = << >> /\ exitCode = 0
  /\ called = << >>

mainVars == <<config, envList, run, pc, files, idx, seen, source, facts, out,
              exitCode, called, prev>>

\* The statements a file may start with: the two directives, a call and an
\* import.
Statements ==
  {Directive("use client"), Directive("use strict"),
   ExprStmt("CallExpression"), Stmt("ImportDeclaration")}

InitDirective ==
  /\ NoRun
  /\ pin \in SeqsUpTo(Statements, MaxStmts)
  /\ pout = << >>

\* hasUseClientDirective(sourceFile) on a file whose statements are pin.
ApplyHasUseClientDirective ==
  /\ pc = "pure" /\ pout = << >>
  /\ pout' = <<hasUseClientDirective(pin, 1)>>
  /\ UNCHANGED <<mainVars, pin>>

NextDirective == ApplyHasUseClientDirective

SpecDirective == InitDirective /\ [][NextDirective]_vars

\* The closed kind set of UnitRecord.
Kinds == {"callable", "classifier", "variable", "parameter", "type"}

\* UTF-16 code units of the strings base64Url is applied to: a, >, ?, e with
\* acute accent, the euro sign, a high and a low surrogate.
CodeUnits == {97, 62, 63, 233, 8364, 55357, 56832}

\* UTF-16 code units of the qualified names symbolId is applied to: a, a high
\* and a low surrogate.
NameUnits == {97, 55296, 56320}

InitId ==
  /\ NoRun
  /\ \/ \E x \in SeqsUpTo(CodeUnits, MaxLen) :
          pin = [fn |-> "base64Url", value |-> x]
     \/ \E k1 \in Kinds, k2 \in Kinds :
          \E q1 \in SeqsUpTo(NameUnits, MaxName),
             q2 \in SeqsUpTo(NameUnits, MaxName) :
            pin = [fn |-> "symbolId",
                   a |-> [kind |-> k1, qualifiedName |-> q1],
                   b |-> [kind |-> k2, qualifiedName |-> q2]]
  /\ pout = << >>

\* base64Url(value).
ApplyBase64Url ==
  /\ pc = "pure" /\ pout = << >> /\ pin.fn = "base64Url"
  /\ pout' = <<base64Url(pin.value)>>
  /\ UNCHANGED <<mainVars, pin>>

\* symbolId(kind, qualifiedName), on two inputs.
ApplySymbolId ==
  /\ pc = "pure" /\ pout = << >> /\ pin.fn = "symbolId"
  /\ pout' = <<symbolId(pin.a.kind, pin.a.qualifiedName),
               symbolId(pin.b.kind, pin.b.qualifiedName)>>
  /\ UNCHANGED <<mainVars, pin>>

NextId == ApplyBase64Url \/ ApplySymbolId

SpecId == InitId /\ [][NextId]_vars

(* ------------------------------------------------------------------ *)
(* Properties of the pure functions                                   *)
(* ------------------------------------------------------------------ *)

IsStringLiteralStatement(stmt) ==
  stmt.kind = "ExpressionStatement" /\ stmt.expr = "StringLiteral"

DirectiveApplied == pc = "pure" /\ pout # << >> /\ pin \in Seq(Statements)

\* C5, as stated: hasUseClientDirective is true when the first statement is
\* the directive "use client", and false whenever "use client" occurs only as
\* the second statement, whatever the first statement is.
C5_SecondStatementIsFalse ==
  DirectiveApplied =>
    /\ (Len(pin) >= 1 /\ pin[1] = Directive("use client")) => pout[1] = TRUE
    /\ (/\ Len(pin) >= 2
        /\ \A i \in 1..Len(pin) : pin[i] = Directive("use client") <=> i = 2)
         => pout[1] = FALSE

\* C5, amended: hasUseClientDirective is true exactly when "use client" is
\* one of the string-literal expression statements the file starts with; so it
\* is true for a first statement "use client", false for a second statement
\* "use client" after a statement that is not a string literal, and true for
\* a second statement "use client" after another directive.
C5_UseClientInPrologue ==
  DirectiveApplied =>
    (pout[1] = TRUE <=>
       \E i \in 1..Len(pin) :
         /\ pin[i] = Directive("use client")
         /\ \A j \in 1..(i - 1) : IsStringLiteralStatement(pin[j]))

\* "use strict"; "use client"; has been examined.
C5_Witness ==
  /\ DirectiveApplied
  /\ Len(pin) = 2
  /\ pin[1] = Directive("use strict") /\ pin[2] = Directive("use client")
  /\ pout = <<TRUE>>

\* The characters of s are outside the set.
HasNone(s, chars) == \A i \in 1..Len(s) : Ch(s, i) \notin chars

Base64Value(c) == CHOOSE v \in 0..63 : Base64Char(v) = c

\* The reverse of BASE64_MAP on the two substituted characters.
RECURSIVE UnmapChars(_)
UnmapChars(s) ==
  IF s = "" THEN ""
  ELSE (IF Head(s) = "-" THEN "+" ELSE IF Head(s) = "_" THEN "/"
        ELSE Ch(s, 1)) \o UnmapChars(Tail(s))

\* The padding restored from the length of the token.
RestorePadding(s) ==
  IF Len(s) % 4 = 2 THEN s \o "=="
  ELSE IF Len(s) % 4 = 3 THEN s \o "="
  ELSE s

\* Base64 decoding of a padded text.
RECURSIVE Base64Decode(_)
Base64Decode(s) ==
  IF Len(s) < 4 THEN << >>
  ELSE
    LET a == Base64Value(Ch(s, 1))
        b == Base64Value(Ch(s, 2))
        c == IF Ch(s, 3) = "=" THEN 0 ELSE Base64Value(Ch(s, 3))
        d == IF Ch(s, 4) = "=" THEN 0 ELSE Base64Value(Ch(s, 4))
        n == a * 262144 + b * 4096 + c * 64 + d
        bytes == <<n \div 65536, (n \div 256) % 256, n % 256>>
        kept == IF Ch(s, 3) = "=" THEN 1 ELSE IF Ch(s, 4) = "=" THEN 2 ELSE 3
    IN SubSeq(bytes, 1, kept) \o Base64Decode(SubSeq(s, 5, Len(s)))

Base64UrlApplied == pc = "pure" /\ pout # << >> /\ pin.fn = "base64Url"

\* C9: for every string x, reversing the character map on base64Url(x),
\* restoring the padding from the token's length and base64-decoding returns
\* the bytes of x, and the token has none of the characters + / =.
C9_TokenRoundTrip ==
  Base64UrlApplied =>
    /\ Base64Decode(RestorePadding(UnmapChars(pout[1]))) = Utf8(pin.value)
    /\ HasNone(pout[1], {"+", "/", "="})

\* A token in which a character was substituted and the padding was stripped.
C9_Witness ==
  /\ Base64UrlApplied
  /\ pin.value = <<233, 62, 62>>
  /\ pout = <<"w6k-Pg">>

SymbolIdApplied == pc = "pure" /\ pout # << >> /\ pin.fn = "symbolId"

\* C8, as stated: symbolId is injective: for all kinds k1, k2 and all
\* qualified names q1, q2, equal identifiers imply k1 = k2 and q1 = q2.
C8_SymbolIdInjective ==
  (SymbolIdApplied /\ pout[1] = pout[2]) => pin.a = pin.b

\* Two names that differ in an unpaired surrogate got the same identifier.
C8_Collision ==
  /\ SymbolIdApplied
  /\ pin.a = [kind |-> "callable", qualifiedName |-> <<97, 55296>>]
  /\ pin.b = [kind |-> "callable", qualifiedName |-> <<97, 56320>>]
  /\ pout[1] = pout[2]

(* ------------------------------------------------------------------ *)
(* Properties of the extraction                                       *)
(* ------------------------------------------------------------------ *)

\* The positions of the written records of the file with this repo-relative
\* path.
RecordsOf(rel) == {i \in 1..Len(out) : out[i].filePath = rel}
Emitted(rel) == RecordsOf(rel) # {}
RecordOf(rel) == out[CHOOSE i \in RecordsOf(rel) : TRUE]

\* The source file a written record is about.
SourceOf(record) == FileAt(pathResolve(repoOf(config), record.filePath))

C2_CrossFileResolution ==
  (projectRoot(config) = RepoDir /\ Emitted("a.ts") /\ Emitted("b.ts")) =>
    LET a == RecordOf("a.ts")
        b == RecordOf("b.ts")
    IN /\ Len(a.units) = 1 /\ a.units[1].qualifiedName = "a.foo"
       /\ Len(b.units) = 1 /\ b.units[1].qualifiedName = "b.bar"
       /\ Len(a.occurrences) = 1 /\ Len(b.occurrences) = 0
       /\ a.occurrences[1].subjectSymbolId = symbolId("callable", U("a.foo"))
       /\ a.occurrences[1].objectSymbolId = symbolId("callable", U("b.bar"))

\* The files of the list for which extraction succeeds: they exist and can be
\* read.
Extractable == {p \in CorpusPaths : ~collectFactsThrows(FileAt(p))}

\* C3, as stated: when the run is over, the record of a file whose extraction
\* fails is omitted and every other file of the list that extracts
\* successfully has its record written, the files after the failing one too.
C3_FailureIsolation ==
  pc \in {"done", "crashed"} =>
    \A i \in 1..Len(files) :
      Emitted(ReplaceChar(pathRelative(repoOf(config), files[i]), "\\", "/"))
        <=> files[i] \in Extractable

\* The override is supplied and is not a list of path strings.
Malformed(e) ==
  \/ e.kind \in {"empty", "invalid", "value"}
  \/ e.kind = "array" /\ \E i \in 1..Len(e.items) : e.items[i].type # "string"

\* The run has not gone past reading the file list, or has ended there with
\* status 1: no file list, no call of collectFacts, no record.
FatalBeforeExtraction ==
  /\ pc \in {"start", "exited"}
  /\ pc = "exited" => exitCode = 1
  /\ files = << >> /\ called = << >> /\ out = << >>

\* C4, as stated: whenever ONTOCODE_FILE_LIST is supplied and malformed, the
\* run ends with a failing status before any record is written and before
\* collectFacts is called, and never falls back to file discovery.
C4_MalformedIsFatal == Malformed(envList) => FatalBeforeExtraction

\* C4, amended: whenever ONTOCODE_FILE_LIST is supplied with a non-empty value
\* that is malformed, the run ends with status 1 before any record is written
\* and before collectFacts is called, and never runs file discovery; an empty
\* value is taken as no override, and the run never ends at the file list.
C4_NonEmptyMalformedIsFatal ==
  /\ (Malformed(envList) /\ envList.kind # "empty") => FatalBeforeExtraction
  /\ envList.kind = "empty" => pc # "exited"

\* The run ended at a list whose first item is a path and whose second is not
\* a string.
C4_Witness ==
  /\ pc = "exited" /\ exitCode = 1
  /\ envList.kind = "array" /\ Len(envList.items) = 2
  /\ envList.items[1].type = "string" /\ envList.items[2].type = "number"

\* C6, as stated: for c.tsx, whose default export is an anonymous arrow
\* function, the unit of the arrow function has name "arrow" and
\* isExportedDefault true, and the exports have a record named "default" whose
\* unitSymbolId is that unit's symbolId.
C6_DefaultExportedArrow ==
  Emitted("c.tsx") =>
    LET r == RecordOf("c.tsx") IN
    \E i \in 1..Len(r.units) :
      /\ r.units[i].span = FileC.nodes[2].span
      /\ r.units[i].name = "arrow"
      /\ r.units[i].isExportedDefault = TRUE
      /\ \E k \in 1..Len(r.exports) :
           /\ r.exports[k].name = "default"
           /\ r.exports[k].unitSymbolId = r.units[i].symbolId

\* The call expressions of a file whose callee has no symbol.
UnresolvedCalls(file) ==
  {n \in 1..Len(file.nodes) :
     file.nodes[n].kind = "CallExpression" /\ file.nodes[n].calleeSym = 0}

\* The occurrence records of a written record for the call with this span.
OccurrencesAt(record, span) ==
  {k \in 1..Len(record.occurrences) : record.occurrences[k].span = span}

RECURSIVE EnclosingCallables(_, _)
EnclosingCallables(file, n) ==
  LET p == file.nodes[n].parent IN
  IF p = 0 THEN {}
  ELSE (IF file.nodes[p].kind \in OccurrenceKinds THEN {p} ELSE {})
       \cup EnclosingCallables(file, p)

C10_QualifiedNameScheme ==
  \A i \in 1..Len(out) : \A k \in 1..Len(out[i].units) :
    out[i].units[k].qualifiedName =
      moduleQualifiedName(out[i].filePath) \o "." \o out[i].units[k].name

\* A relative module specifier: "." or "..", or one that starts with "./" or
\* "../".
IsRelativeSpecifier(spec) ==
  \/ spec \in {".", ".."}
  \/ Len(spec) >= 2 /\ SubSeq(spec, 1, 2) = "./"
  \/ Len(spec) >= 3 /\ SubSeq(spec, 1, 3) = "../"

\* The specifier resolves to one of the project's source files.
ResolvesInsideProject(decl) == decl.target \in CorpusPaths

\* C11, as stated: collectImportRecords returns one record per import
\* declaration, in declaration order; resolvedKind is "file", with a resolved
\* path, exactly when the specifier resolves to a source file inside the
\* project; otherwise it is "unknown" exactly when the specifier is relative
\* and "package" exactly when it is not; resolved is present on "file" records
\* only.
C11_ImportClassification ==
  \A i \in 1..Len(out) :
    LET decls == SourceOf(out[i]).imports
        records == out[i].imports
    IN /\ Len(records) = Len(decls)
       /\ \A k \in 1..Len(decls) :
            /\ records[k].from = decls[k].from
            /\ records[k].resolvedKind = "file" <=> ResolvesInsideProject(decls[k])
            /\ records[k].resolvedKind = "file" => records[k].resolved # NONE
            /\ records[k].resolvedKind # "file" =>
                 /\ records[k].resolved = NONE
                 /\ records[k].resolvedKind = "unknown"
                      <=> IsRelativeSpecifier(decls[k].from)
                 /\ records[k].resolvedKind = "package"
                      <=> ~IsRelativeSpecifier(decls[k].from)

\* The record of d.ts is written: "react" is classified "file" with a path
\* under node_modules, and ".hidden" is classified "unknown".
C11_Divergence ==
  /\ Emitted("d.ts")
  /\ RecordOf("d.ts").imports[2].resolvedKind = "file"
  /\ projectRoot(config) = RepoDir
       => RecordOf("d.ts").imports[2].resolved = "node_modules/react/index.d.ts"
  /\ RecordOf("d.ts").imports[5].resolvedKind = "unknown"

\* The units of the written records: <<record, unit>> positions.  Each is the
\* unit of one declaration node.
EmittedUnits ==
  UNION {{<<i, k>> : k \in 1..Len(out[i].units)} : i \in 1..Len(out)}

UnitAt(x) == out[x[1]].units[x[2]]

\* C12, as stated: in the units written by one run, no two declaration nodes
\* have the same qualifiedName, and no two units of the same kind have the
\* same symbolId.
C12_QualifiedNamesUnique ==
  \A x \in EmittedUnits : \A y \in EmittedUnits :
    x # y =>
      /\ UnitAt(x).qualifiedName # UnitAt(y).qualifiedName
      /\ UnitAt(x).kind = UnitAt(y).kind
           => UnitAt(x).symbolId # UnitAt(y).symbolId

\* The record of lib/n.ts is written: the function expression in outer and
\* the arrow function in K.m are two units with one qualifiedName and one
\* symbolId.
C12_Collision ==
  /\ Emitted("lib/n.ts")
  /\ \E k, l \in 1..Len(RecordOf("lib/n.ts").units) :
       LET u == RecordOf("lib/n.ts").units[k]
           v == RecordOf("lib/n.ts").units[l]
       IN /\ u.span = FileN.nodes[6].span /\ v.span = FileN.nodes[13].span
          /\ u.qualifiedName = v.qualifiedName
          /\ u.symbolId = v.symbolId

\* The symbolIds of the units of a written record.
UnitIds(record) == {record.units[k].symbolId : k \in 1..Len(record.units)}

\* The first declaration of the k-th export symbol of a file is a node that
\* collectUnits makes a unit of.
ExportIsUnit(file, k) == DeclNode(file.exportSymbols[k].decls[1]).kind \in UnitKinds

\* C13, as stated: for every export record of a written FileFacts,
\* unitSymbolId is absent or is the symbolId of a unit of the same record, and
\* it is absent whenever the exported declaration is not an emitted unit.
C13_ExportsPointAtUnits ==
  \A i \in 1..Len(out) :
    /\ \A k \in 1..Len(out[i].exports) :
         \/ out[i].exports[k].unitSymbolId = NONE
         \/ out[i].exports[k].unitSymbolId \in UnitIds(out[i])
    /\ \A k \in 1..Len(SourceOf(out[i]).exportSymbols) :
         ~ExportIsUnit(SourceOf(out[i]), k)
           => out[i].exports[k].unitSymbolId = NONE

\* The record of c.tsx is written: its export record "default", whose
\* declaration is the export assignment, has a unitSymbolId that is the
\* symbolId of no unit of the record.
C13_Dangling ==
  /\ Emitted("c.tsx")
  /\ RecordOf("c.tsx").exports[1].name = "default"
  /\ ~ExportIsUnit(FileC, 1)
  /\ RecordOf("c.tsx").exports[1].unitSymbolId # NONE
  /\ RecordOf("c.tsx").exports[1].unitSymbolId \notin UnitIds(RecordOf("c.tsx"))

\* The repo-relative path main writes for a path of the file list.
RelativePath(p) == ReplaceChar(pathRelative(repoOf(config), p), "\\", "/")

\* The file list from position i on, without the paths that cannot be loaded
\* as a source file (no file, or a file that cannot be read) and without the
\* repetitions of a path.
RECURSIVE LoadableOnce(_, _)
LoadableOnce(list, i) ==
  IF i > Len(list) THEN << >>
  ELSE IF /\ list[i] \in Extractable
          /\ \A j \in 1..(i - 1) : list[j] # list[i]
    THEN <<RelativePath(list[i])>> \o LoadableOnce(list, i + 1)
    ELSE LoadableOnce(list, i + 1)

\* C14, as stated: when the run is over, the filePaths of the written records
\* are the file list without the paths that cannot be loaded as a source file
\* and without repetitions, in the order of the list; and at every moment a record is
\* written only after collectFacts has returned for its file and before the
\* extraction of the next file starts.
C14_OutputStream ==
  /\ pc \in {"done", "crashed"} =>
       [i \in 1..Len(out) |-> out[i].filePath] = LoadableOnce(files, 1)
  /\ Len(called) \in {Len(out), Len(out) + 1}
  /\ \A i \in 1..Len(out) : out[i].filePath = RelativePath(called[i])

\* The run is over with the list x.ts, a.ts: a.ts can be loaded and read,
\* collectFacts was called for x.ts only, and nothing was written.
C14_Truncated ==
  /\ pc = "crashed"
  /\ files = <<"/w/r/x.ts", "/w/r/a.ts">>
  /\ LoadableOnce(files, 1) = <<"a.ts">>
  /\ called = <<"/w/r/x.ts">>
  /\ out = << >>

\* The position (line, column) a is not after b.
NotAfter(al, ac, bl, bc) == al < bl \/ (al = bl /\ ac <= bc)

\* The span outer contains the span inner.
Contains(outer, inner) ==
  /\ NotAfter(outer.startLine, outer.startCol, inner.startLine, inner.startCol)
  /\ NotAfter(inner.endLine, inner.endCol, outer.endLine, outer.endCol)

\* The callable units of a written record around a span.
EnclosingUnits(record, span) ==
  {k \in 1..Len(record.units) :
     record.units[k].kind = "callable" /\ Contains(record.units[k].span, span)}

\* The call expressions of a file.
CallExpressions(file) ==
  {n \in 1..Len(file.nodes) : file.nodes[n].kind = "CallExpression"}

\* C15: in every written FileFacts, each occurrence has relation "calls" and
\* the symbolId of a callable unit of the record as subjectSymbolId; a call
\* expression that lies in k callable units of the record has exactly k
\* occurrence records, one for each of these units, and a call expression
\* outside every callable unit has none.
C15_OccurrenceAttribution ==
  \A i \in 1..Len(out) :
    /\ \A k \in 1..Len(out[i].occurrences) :
         /\ out[i].occurrences[k].relation = "calls"
         /\ \E u \in 1..Len(out[i].units) :
              /\ out[i].units[u].kind = "callable"
              /\ out[i].units[u].symbolId = out[i].occurrences[k].subjectSymbolId
    /\ \A n \in CallExpressions(SourceOf(out[i])) :
         LET span == SourceOf(out[i]).nodes[n].span
             at == OccurrencesAt(out[i], span)
             around == EnclosingUnits(out[i], span)
         IN /\ Cardinality(at) = Cardinality(around)
            /\ \A u \in around : \E k \in at :
                 out[i].occurrences[k].subjectSymbolId = out[i].units[u].symbolId
            /\ \A k \in at : \E u \in around :
                 out[i].occurrences[k].subjectSymbolId = out[i].units[u].symbolId

\* The record of lib/n.ts is written: the call in the arrow function that
\* K.m returns has two records, one for m and one for the arrow function, and
\* the call in the constructor of K has none.
C15_Witness ==
  /\ Emitted("lib/n.ts")
  /\ LET r == RecordOf("lib/n.ts")
         at == OccurrencesAt(r, FileN.nodes[14].span)
     IN /\ Cardinality(at) = 2
        /\ Cardinality(EnclosingUnits(r, FileN.nodes[14].span)) = 2
        /\ \E k, l \in at :
             r.occurrences[k].subjectSymbolId # r.occurrences[l].subjectSymbolId
        /\ OccurrencesAt(r, FileN.nodes[11].span) = {}
        /\ EnclosingUnits(r, FileN.nodes[11].span) = {}
====
